---- MODULE Spec2Model ----
(***************************************************************************)
(* Model of package mdb (github.com/ti/mdb): a retry/refresh decorator     *)
(* over an mgo session.  Strings are tuples of one-character strings so    *)
(* that prefix/suffix tests, lower-casing, slicing and integer parsing are *)
(* computed the way the Go code computes them.                             *)
(***************************************************************************)
EXTENDS Integers, Sequences, FiniteSets, TLC

(***************************************************************************)
(* Strings                                                                 *)
(***************************************************************************)
UpperAlpha == <<"A","B","C","D","E","F","G","H","I","J","K","L","M",
                "N","O","P","Q","R","S","T","U","V","W","X","Y","Z">>
LowerAlpha == <<"a","b","c","d","e","f","g","h","i","j","k","l","m",
                "n","o","p","q","r","s","t","u","v","w","x","y","z">>

\* strings.ToLower on one character
ToLowerChar(c) ==
  IF \E k \in 1..26 : UpperAlpha[k] = c
  THEN LowerAlpha[CHOOSE k \in 1..26 : UpperAlpha[k] = c]
  ELSE c

\* strings.ToLower
ToLower(s) == [k \in 1..Len(s) |-> ToLowerChar(s[k])]

\* strings.HasPrefix
HasPrefix(s, p) == Len(s) >= Len(p) /\ SubSeq(s, 1, Len(p)) = p

\* strings.HasSuffix
HasSuffix(s, p) == Len(s) >= Len(p) /\ SubSeq(s, Len(s) - Len(p) + 1, Len(s)) = p

\* strings.Contains
Contains(s, p) ==
  \E k \in 0..(Len(s) - Len(p)) : SubSeq(s, k + 1, k + Len(p)) = p

S_closed     == <<"c","l","o","s","e","d">>
S_close      == <<"c","l","o","s","e">>
S_shutdown   == <<"s","h","u","t","d","o","w","n">>
S_connection == <<"c","o","n","n","e","c","t","i","o","n">>

(***************************************************************************)
(* Errors.  kind "nil" is the nil error, "eof" is the io.EOF value,        *)
(* "operr" is a value of dynamic type *net.OpError, "other" is any other   *)
(* error value; msg is what Error() returns.                               *)
(***************************************************************************)
NilErr == [kind |-> "nil", msg |-> <<>>]
EOF    == [kind |-> "eof", msg |-> <<"E","O","F">>]
ErrClosedExplicitly ==
  [kind |-> "other",
   msg |-> <<"C","l","o","s","e","d"," ","e","x","p","l","i","c","i","t","l","y">>]
ErrNotFound ==
  [kind |-> "other", msg |-> <<"n","o","t"," ","f","o","u","n","d">>]

\* a classifier that looks for "closed" anywhere in the message
ClosedAtEnds_anywhere(e) == Contains(e, S_closed)

\* the message test of the strict classifier
ClosedAtEnds(e) == HasPrefix(e, S_closed) \/ HasSuffix(e, S_closed)

\* isNetworkError, strict variant
isNetworkError(err) ==
  IF err.kind = "nil" THEN FALSE
  ELSE IF err.kind = "eof" THEN TRUE
  ELSE IF err.kind = "operr" THEN TRUE
  ELSE ClosedAtEnds(ToLower(err.msg))

\* a loose variant that does not look for "close"
isNetworkErrorLoose_noClose(err) ==
  IF err.kind = "nil" THEN FALSE
  ELSE IF err.kind = "eof" THEN TRUE
  ELSE LET e == ToLower(err.msg)
       IN  Contains(e, S_shutdown) \/ Contains(e, S_connection)

\* isNetworkError, loose variant
isNetworkErrorLoose(err) ==
  IF err.kind = "nil" THEN FALSE
  ELSE IF err.kind = "eof" THEN TRUE
  ELSE LET e == ToLower(err.msg)
       IN  Contains(e, S_close) \/ Contains(e, S_shutdown) \/ Contains(e, S_connection)

(***************************************************************************)
(* strconv.Atoi on the connect target's maxRetries value: an optional      *)
(* sign followed by one or more decimal digits.                            *)
(***************************************************************************)
Digits == <<"0","1","2","3","4","5","6","7","8","9">>

IsDigit(c) == \E k \in 1..10 : Digits[k] = c

DigitVal(c) == (CHOOSE k \in 1..10 : Digits[k] = c) - 1

RECURSIVE DecVal(_)
DecVal(s) ==
  IF s = <<>> THEN 0
  ELSE 10 * DecVal(SubSeq(s, 1, Len(s) - 1)) + DigitVal(s[Len(s)])

HasSign(s) == s # <<>> /\ s[1] \in {"+", "-"}

Unsigned(s) == IF HasSign(s) THEN Tail(s) ELSE s

\* err == nil of strconv.Atoi(s)
AtoiOk(s) ==
  /\ Unsigned(s) # <<>>
  /\ \A k \in 1..Len(Unsigned(s)) : IsDigit(Unsigned(s)[k])

\* the int of strconv.Atoi(s), when AtoiOk(s)
AtoiVal(s) ==
  IF s # <<>> /\ s[1] = "-" THEN 0 - DecVal(Unsigned(s)) ELSE DecVal(Unsigned(s))

(***************************************************************************)
(* url.Values: each key maps to its list of values, an absent key to the   *)
(* empty list.  A connect target is what url.Parse makes of it: a parse    *)
(* error, or a path and the query.                                         *)
(***************************************************************************)
QueryKeys == {"db", "maxRetries", "replicaSet"}

\* url.Values.Get
Get(query, key) == IF query[key] = <<>> THEN <<>> ELSE query[key][1]

\* url.Values.Del
Del(query, key) == [query EXCEPT ![key] = <<>>]

\* the default retry count of Dial
DefaultMaxRetries == 2

EmptyQuery == [k \in QueryKeys |-> <<>>]

NoUrl == [dialed |-> FALSE, path |-> <<>>, query |-> EmptyQuery]

\* the nil *Database
NilDatabase == [has |-> FALSE, Name |-> <<>>, MaxConnectRetries |-> 0]

\* Dial, lines 56-65: the database name, or the configuration error
HasDbParam(tg) == Get(tg.query, "db") # <<>>

HasDbName(tg) == HasDbParam(tg) \/ Len(tg.path) > 1

\* a Dial that prefers the path segment to the db parameter
DbName_pathFirst(tg) == IF Len(tg.path) > 1 THEN Tail(tg.path) ELSE Get(tg.query, "db")

\* "dbName = db" or "dbName = uri.Path[1:]"
DbName(tg) == IF HasDbParam(tg) THEN Get(tg.query, "db") ELSE Tail(tg.path)

QueryAfterDb(tg) == IF HasDbParam(tg) THEN Del(tg.query, "db") ELSE tg.query

\* Dial, lines 66-74: the retry count, or the conversion error
HasRetriesParam(tg) == Get(QueryAfterDb(tg), "maxRetries") # <<>>

RetriesOk(tg) == HasRetriesParam(tg) => AtoiOk(Get(QueryAfterDb(tg), "maxRetries"))

MaxRetriesOf(tg) ==
  IF HasRetriesParam(tg)
  THEN AtoiVal(Get(QueryAfterDb(tg), "maxRetries"))
  ELSE DefaultMaxRetries

QueryAfterRetries(tg) ==
  IF HasRetriesParam(tg) THEN Del(QueryAfterDb(tg), "maxRetries") ELSE QueryAfterDb(tg)

\* Dial, lines 75-77: the connection string handed to mgo.Dial
DialedUrl(tg) == [dialed |-> TRUE, path |-> tg.path, query |-> QueryAfterRetries(tg)]

\* Dial as a function of the target and of whether mgo.Dial succeeds:
\* err is "nil" or the kind of error returned, db the *Database returned
\* (has = FALSE for nil), url what mgo.Dial was called with
DialResult(tg, dialOk) ==
  IF tg.parseErr THEN
    [err |-> "parse", db |-> NilDatabase, url |-> NoUrl]
  ELSE IF ~HasDbName(tg) THEN
    [err |-> "config", db |-> NilDatabase, url |-> NoUrl]
  ELSE IF ~RetriesOk(tg) THEN
    [err |-> "atoi", db |-> NilDatabase, url |-> NoUrl]
  ELSE
    [err |-> IF dialOk THEN "nil" ELSE "dial",
     db  |-> [has |-> TRUE, Name |-> DbName(tg), MaxConnectRetries |-> MaxRetriesOf(tg)],
     url |-> DialedUrl(tg)]

(***************************************************************************)
(* Bounds                                                                  *)
(***************************************************************************)
\* retry counts given to the connect targets of the concurrent model: 0..MaxRetriesBound
MaxRetriesBound == 2
\* the errors given to the classifier have messages of up to MaxTokens tokens
MaxTokens == 3
\* the maxRetries values of the connect targets have up to MaxValueLen characters
MaxValueLen == 2
\* a Query has up to MaxBuilders builder calls made on it
MaxBuilders == 2
\* the names the program passes to DB(name), each once
ViewNames == {<<"o","t","h","e","r">>}
\* the goroutines sharing the handles: a caller that makes any call, and a
\* goroutine of TestRefresh, which makes Collection calls
Callers == {"g1"}
Threads == Callers \cup {"g2"}

S_test  == <<"t","e","s","t">>
S_other == <<"o","t","h","e","r">>
S_mydb  == <<"m","y","d","b">>
S_rs0   == <<"r","s","0">>

(***************************************************************************)
(* State                                                                   *)
(***************************************************************************)
VARIABLES
  dbs,       \* the Database objects: Name, MaxConnectRetries, session, refreshing
  sessions,  \* the mgo sessions: how many Session.Refresh calls are in progress
  th,        \* per goroutine: the operation call it is executing
  dial,      \* the last Dial call: its target and what it returned
  cls,       \* the classifier's input and verdict
  drv        \* the sequential program: the driver's objects and its last calls

vars == <<dbs, sessions, th, dial, cls, drv>>

DbIds == 1..Len(dbs)

\* the errors the driver returns to an attempt
DriverErrs == {NilErr, EOF, ErrClosedExplicitly, ErrNotFound}

\* the kinds of call a goroutine makes, by receiver: an enveloped Collection
\* method, an enveloped Query method, an enveloped Iter method, Database.Run.
\* The enveloped methods of one receiver have the same loop around different
\* driver calls, and a driver call is modelled by the error it returns.
Ops == {"Collection", "Query", "Iter", "Run"}

Idle == [pc |-> "idle", op |-> "none", db |-> 0, of |-> 0, i |-> 0, err |-> NilErr,
         calls |-> 0, last |-> NilErr, ntrans |-> 0, rcalls |-> 0, real |-> 0]

NoDial == [called |-> FALSE, target |-> [parseErr |-> TRUE, path |-> <<>>, query |-> EmptyQuery],
           res |-> [err |-> "none", db |-> NilDatabase, url |-> NoUrl]]

NoCls == [err |-> NilErr, out |-> "none", loose |-> "none"]

\* no call made yet
NoCall == [method |-> "none", db |-> 0, arg |-> "none", err |-> NilErr, out |-> "none",
           ret |-> 0, calls |-> 0, refreshes |-> 0, kills |-> 0, sent |-> <<>>, served |-> 0]

\* no Query made yet
NoQuery == [has |-> FALSE, db |-> 0, sel |-> "none", opts |-> 0, ins |-> "none"]

\* no Iter made yet
NoIter == [state |-> "none", db |-> 0, err |-> NilErr, live |-> FALSE, left |-> 0]

NoDrv == [docs |-> {}, q |-> NoQuery, it |-> NoIter, closed |-> {}, views |-> {}, copies |-> {},
          last |-> NoCall, prev |-> NoCall]

(***************************************************************************)
(* Handles.  A handle is the record of its fields; Database, db are the    *)
(* index of the Database object the pointer refers to.                     *)
(***************************************************************************)
\* Database.C
C(d) == [Database |-> d, Name |-> "people"]

\* a Find that binds the Query to the first Database rather than the Collection's
Find_firstDatabase(c) == [db |-> 1]

\* Collection.Find (and FindId, which calls it)
Find(c) == [db |-> c.Database]

\* Query.Iter
Iter(q) == [db |-> q.db]

\* Collection.NewIter
NewIter(c) == [db |-> c.Database]

\* a DB that gives the view a session of its own
DB_ownSession(d, name) ==
  [Name |-> name, MaxConnectRetries |-> dbs[d].MaxConnectRetries,
   session |-> Len(sessions) + 1, refreshing |-> FALSE]

\* a DB that leaves the view's retry count at Dial's default
DB_defaultRetries(d, name) ==
  [Name |-> name, MaxConnectRetries |-> DefaultMaxRetries,
   session |-> dbs[d].session, refreshing |-> FALSE]

\* Database.DB
DB(d, name) ==
  [Name |-> name, MaxConnectRetries |-> dbs[d].MaxConnectRetries,
   session |-> dbs[d].session, refreshing |-> FALSE]

\* Database.Clone: a Database on a new session made by Session.Clone, with
\* the fields the composite literal does not name at their zero values
Clone(d) ==
  [Name |-> dbs[d].Name, MaxConnectRetries |-> 0,
   session |-> Len(sessions) + 1, refreshing |-> FALSE]

\* Database.Copy: the same on a new session made by Session.Copy
Copy(d) ==
  [Name |-> dbs[d].Name, MaxConnectRetries |-> 0,
   session |-> Len(sessions) + 1, refreshing |-> FALSE]

\* the Database that Dial returns, around a new session
NewDatabase(res, sess) ==
  [Name |-> res.db.Name, MaxConnectRetries |-> res.db.MaxConnectRetries,
   session |-> sess, refreshing |-> FALSE]

(***************************************************************************)
(* The retry envelope.  c is the call's frame: op and db are the method's  *)
(* receiver, i and err the loop variable and the named result.  The rest   *)
(* records what the call did: of is the Database its handle was derived    *)
(* from, calls the driver calls made, last the error of the latest one,    *)
(* ntrans how many of them isNetworkError holds of, rcalls the calls of    *)
(* refresh, real the Session.Refresh calls issued.                         *)
(***************************************************************************)
\* a loop written "i <= c.Database.MaxConnectRetries"
LoopBound_inclusive(d) == dbs[d].MaxConnectRetries + 1

\* the loop bound read by "i < c.Database.MaxConnectRetries"
LoopBound(d) == dbs[d].MaxConnectRetries

\* an envelope that returns only on success and refreshes on every error
ReturnsAfter_onlyNil(err) == err = NilErr

\* Collection and Iter methods: "if !isNetworkError(err) { return }"
ReturnsAfter(err) == ~isNetworkError(err)

\* Query methods: "if err == nil { return }"
QueryReturnsAfter(err) == err = NilErr

\* a Query loop that refreshes after every error
QueryContinues_never(err) == FALSE

\* Query methods: "if !isNetworkError(err) { continue }"
QueryContinues(err) == ~isNetworkError(err)

\* the frame after the driver call of an attempt returned e
Called(c, e) ==
  [c EXCEPT !.calls = @ + 1, !.last = e,
            !.ntrans = IF isNetworkError(e) THEN @ + 1 ELSE @]

\* the frame after "err = <driver call>" and the tests that follow it
AfterAttempt(c, e) ==
  LET c1 == [Called(c, e) EXCEPT !.err = e]
  IN  IF ReturnsAfter(e) THEN [c1 EXCEPT !.pc = "done"]
      ELSE [c1 EXCEPT !.pc = "rf_check", !.rcalls = @ + 1]

AfterQueryAttempt(c, e) ==
  LET c1 == [Called(c, e) EXCEPT !.err = e]
  IN  IF QueryReturnsAfter(e) THEN [c1 EXCEPT !.pc = "done"]
      ELSE IF QueryContinues(e) THEN [c1 EXCEPT !.i = @ + 1]
      ELSE [c1 EXCEPT !.pc = "rf_check", !.rcalls = @ + 1]

\* a loop that does not count the attempt after a refresh
AfterRefresh_sameAttempt(c) == [c EXCEPT !.pc = "attempt"]

\* the frame when refresh() returns: the loop's i++
AfterRefresh(c) == [c EXCEPT !.pc = "attempt", !.i = @ + 1]

\* a call whose loop starts one iteration late while the Database is being
\* refreshed by another call
NewCall_sharedCount(op, d, from) ==
  [Idle EXCEPT !.pc = IF op = "Run" THEN "run" ELSE "attempt",
               !.op = op, !.db = d, !.of = from,
               !.i = IF dbs[d].refreshing THEN 1 ELSE 0]

\* the frame at the entry of a method: "for i := 0"
NewCall(op, d, from) ==
  [Idle EXCEPT !.pc = IF op = "Run" THEN "run" ELSE "attempt",
               !.op = op, !.db = d, !.of = from]

\* db.C(name).<method>(...)
StartCollection(t) ==
  /\ th[t].pc = "idle"
  /\ \E d \in DbIds : th' = [th EXCEPT ![t] = NewCall("Collection", C(d).Database, d)]
  /\ UNCHANGED <<dbs, sessions, dial, cls, drv>>

\* db.C(name).Find(q).<method>(...)
StartQuery(t) ==
  /\ th[t].pc = "idle"
  /\ \E d \in DbIds : th' = [th EXCEPT ![t] = NewCall("Query", Find(C(d)).db, d)]
  /\ UNCHANGED <<dbs, sessions, dial, cls, drv>>

\* db.C(name).Find(q).Iter().<method>(...) or db.C(name).NewIter(...).<method>(...)
StartIter(t) ==
  /\ th[t].pc = "idle"
  /\ \E d \in DbIds : \E it \in {Iter(Find(C(d))), NewIter(C(d))} :
       th' = [th EXCEPT ![t] = NewCall("Iter", it.db, d)]
  /\ UNCHANGED <<dbs, sessions, dial, cls, drv>>

\* db.Run(cmd, result)
StartRun(t) ==
  /\ th[t].pc = "idle"
  /\ \E d \in DbIds : th' = [th EXCEPT ![t] = NewCall("Run", d, d)]
  /\ UNCHANGED <<dbs, sessions, dial, cls, drv>>

\* one iteration of a Collection method's loop, up to the call of refresh
CollectionAttempt(t) ==
  /\ th[t].pc = "attempt" /\ th[t].op = "Collection"
  /\ th[t].i < LoopBound(th[t].db)
  /\ \E e \in DriverErrs : th' = [th EXCEPT ![t] = AfterAttempt(@, e)]
  /\ UNCHANGED <<dbs, sessions, dial, cls, drv>>

\* one iteration of Iter.Close or Iter.All
IterAttempt(t) ==
  /\ th[t].pc = "attempt" /\ th[t].op = "Iter"
  /\ th[t].i < LoopBound(th[t].db)
  /\ \E e \in DriverErrs : th' = [th EXCEPT ![t] = AfterAttempt(@, e)]
  /\ UNCHANGED <<dbs, sessions, dial, cls, drv>>

\* one iteration of Query.One, All, Apply or Explain
QueryAttempt(t) ==
  /\ th[t].pc = "attempt" /\ th[t].op = "Query"
  /\ th[t].i < LoopBound(th[t].db)
  /\ \E e \in DriverErrs : th' = [th EXCEPT ![t] = AfterQueryAttempt(@, e)]
  /\ UNCHANGED <<dbs, sessions, dial, cls, drv>>

\* the loop condition fails: "return err" after the loop
LoopExit(t) ==
  /\ th[t].pc = "attempt"
  /\ ~(th[t].i < LoopBound(th[t].db))
  /\ th' = [th EXCEPT ![t].pc = "done"]
  /\ UNCHANGED <<dbs, sessions, dial, cls, drv>>

(***************************************************************************)
(* Database.refresh.  The test of the flag, its two writes and the         *)
(* Session.Refresh call between them are separate steps: nothing makes     *)
(* them atomic.  The unsynchronised accesses to the flag are interleaved   *)
(* in every order, a test seeing the latest write.                         *)
(***************************************************************************)
\* a refresh that takes one retry off the handle each time it completes
SetRefreshing_onlySets(db, b) == [db EXCEPT !.refreshing = @ \/ b]

SetRefreshing_backoff(db, b) ==
  [db EXCEPT !.refreshing = b,
             !.MaxConnectRetries = IF b THEN @ ELSE @ - 1]

\* "db.refreshing = true", "db.refreshing = false"
SetRefreshing(db, b) == [db EXCEPT !.refreshing = b]

\* a refresh that does not look at the flag
Refreshing_ignored(d) == FALSE

\* the read of db.refreshing
Refreshing(d) == dbs[d].refreshing

\* "if db.refreshing"
RefreshTest(t) ==
  /\ th[t].pc = "rf_check"
  /\ th' = [th EXCEPT ![t].pc = IF Refreshing(th[t].db) THEN "rf_sleep" ELSE "rf_set"]
  /\ UNCHANGED <<dbs, sessions, dial, cls, drv>>

\* "time.Sleep(time.Second); return"
RefreshSleep(t) ==
  /\ th[t].pc = "rf_sleep"
  /\ th' = [th EXCEPT ![t] = AfterRefresh(@)]
  /\ UNCHANGED <<dbs, sessions, dial, cls, drv>>

\* "db.refreshing = true" and the entry into db.session.Refresh()
RefreshBegin(t) ==
  /\ th[t].pc = "rf_set"
  /\ dbs' = [dbs EXCEPT ![th[t].db] = SetRefreshing(@, TRUE)]
  /\ sessions' = [sessions EXCEPT ![dbs[th[t].db].session].active = @ + 1]
  /\ th' = [th EXCEPT ![t].pc = "rf_wait", ![t].real = @ + 1]
  /\ UNCHANGED <<dial, cls, drv>>

\* db.session.Refresh() returns
RefreshEnd(t) ==
  /\ th[t].pc = "rf_wait"
  /\ sessions' = [sessions EXCEPT ![dbs[th[t].db].session].active = @ - 1]
  /\ th' = [th EXCEPT ![t].pc = "rf_clear"]
  /\ UNCHANGED <<dbs, dial, cls, drv>>

\* "db.refreshing = false" and the return
RefreshClear(t) ==
  /\ th[t].pc = "rf_clear"
  /\ dbs' = [dbs EXCEPT ![th[t].db] = SetRefreshing(@, FALSE)]
  /\ th' = [th EXCEPT ![t] = AfterRefresh(@)]
  /\ UNCHANGED <<sessions, dial, cls, drv>>

(***************************************************************************)
(* Database.Run                                                            *)
(***************************************************************************)
\* a Run that refreshes and retries on every error
RunRetries_anyError(err) == err # NilErr

\* "if err != nil && isNetworkError(err)"
RunRetries(err) == err # NilErr /\ isNetworkError(err)

\* the first Run of the command
RunFirst(t) ==
  /\ th[t].pc = "run"
  /\ \E e \in DriverErrs :
       th' = [th EXCEPT ![t] = [Called(@, e) EXCEPT
                                  !.err = e,
                                  !.pc = IF RunRetries(e) THEN "run_refresh" ELSE "done"]]
  /\ UNCHANGED <<dbs, sessions, dial, cls, drv>>

\* the entry into db.session.Refresh()
RunRefresh(t) ==
  /\ th[t].pc = "run_refresh"
  /\ sessions' = [sessions EXCEPT ![dbs[th[t].db].session].active = @ + 1]
  /\ th' = [th EXCEPT ![t].pc = "run_wait", ![t].real = @ + 1]
  /\ UNCHANGED <<dbs, dial, cls, drv>>

\* db.session.Refresh() returns, and "return db.session.DB(db.Name).Run(cmd, result)"
RunSecond(t) ==
  /\ th[t].pc = "run_wait"
  /\ sessions' = [sessions EXCEPT ![dbs[th[t].db].session].active = @ - 1]
  /\ \E e \in DriverErrs :
       th' = [th EXCEPT ![t] = [Called(@, e) EXCEPT !.err = e, !.pc = "done"]]
  /\ UNCHANGED <<dbs, dial, cls, drv>>

\* the caller takes the result; the goroutine is free for its next call
Return(t) ==
  /\ th[t].pc = "done"
  /\ th' = [th EXCEPT ![t] = Idle]
  /\ UNCHANGED <<dbs, sessions, dial, cls, drv>>

\* db.DB(name): a new Database object on the same session
SwitchDatabase(d, name) ==
  /\ \A v \in DbIds : dbs[v].Name # name
  /\ dbs' = Append(dbs, DB(d, name))
  /\ UNCHANGED <<sessions, th, dial, cls, drv>>

(***************************************************************************)
(* Dial                                                                    *)
(***************************************************************************)
Target(path, db, retries, rs) ==
  [parseErr |-> FALSE, path |-> path,
   query |-> [k \in QueryKeys |->
                IF k = "db" THEN db ELSE IF k = "maxRetries" THEN retries ELSE rs]]

\* the connect targets of the concurrent model: mongodb://host/test?maxRetries=n
\* for n = -1 and n in 0..MaxRetriesBound
MainTargets ==
  {Target(<<"/">> \o S_test, <<>>, <<v>>, <<>>) :
     v \in {<<"-", "1">>} \cup {<<Digits[n + 1]>> : n \in 0..MaxRetriesBound}}

\* Dial(mgoUrl); the session of a successful dial is a new one
Dial(tg, dialOk) ==
  LET res == DialResult(tg, dialOk)
  IN  /\ dial' = [called |-> TRUE, target |-> tg, res |-> res]
      /\ IF res.err = "nil"
         THEN /\ sessions' = Append(sessions, [active |-> 0])
              /\ dbs' = Append(dbs, NewDatabase(res, Len(sessions) + 1))
         ELSE UNCHANGED <<dbs, sessions>>
      /\ UNCHANGED <<th, cls, drv>>

\* the program has dialled one of MainTargets, with success
Init ==
  \E tg \in MainTargets :
    LET res == DialResult(tg, TRUE)
    IN  /\ dial = [called |-> TRUE, target |-> tg, res |-> res]
        /\ sessions = <<[active |-> 0]>>
        /\ dbs = <<NewDatabase(res, 1)>>
        /\ th = [t \in Threads |-> Idle]
        /\ cls = NoCls
        /\ drv = NoDrv

Next ==
  \/ \E t \in Callers : StartQuery(t) \/ StartIter(t) \/ StartRun(t)
  \/ \E t \in Threads :
       \/ StartCollection(t)
       \/ CollectionAttempt(t) \/ IterAttempt(t) \/ QueryAttempt(t) \/ LoopExit(t)
       \/ RefreshTest(t) \/ RefreshSleep(t) \/ RefreshBegin(t) \/ RefreshEnd(t)
       \/ RefreshClear(t)
       \/ RunFirst(t) \/ RunRefresh(t) \/ RunSecond(t)
       \/ Return(t)
  \/ \E d \in DbIds, name \in ViewNames : SwitchDatabase(d, name)

Spec == Init /\ [][Next]_vars

\* the steps of an enveloped call in progress on goroutine t: the driver calls,
\* the Session.Refresh calls and the sleep return
Progress(t) ==
  \/ CollectionAttempt(t) \/ IterAttempt(t) \/ QueryAttempt(t) \/ LoopExit(t)
  \/ RefreshTest(t) \/ RefreshSleep(t) \/ RefreshBegin(t) \/ RefreshEnd(t)
  \/ RefreshClear(t)

\* the goroutines share the one Database that Dial returned, and each makes
\* its enveloped calls
NextLive ==
  \/ \E t \in Callers : StartQuery(t) \/ StartIter(t)
  \/ \E t \in Threads : StartCollection(t) \/ Progress(t) \/ Return(t)

\* every driver call and Session.Refresh returns and the goroutine is
\* scheduled: a call in progress eventually takes its next step
SpecLive == Init /\ [][NextLive]_vars /\ \A t \in Threads : WF_vars(Progress(t))

(***************************************************************************)
(* The connect targets given to Dial alone                                 *)
(***************************************************************************)
ValueChars == {"-", "+", "0", "1", "5", "x"}

RECURSIVE StringsUpTo(_, _)
StringsUpTo(chars, n) ==
  IF n = 0 THEN {<<>>}
  ELSE LET shorter == StringsUpTo(chars, n - 1)
       IN  shorter \cup {Append(v, c) : v \in shorter, c \in chars}

\* a key is absent, or present once with a value
Absent == <<>>
Present(v) == <<v>>

DialPaths == {<<>>, <<"/">>, <<"/">> \o S_mydb,
              <<"/","d","b","_","f","o","r","_","c","o","n","n","e","c","t">>}

DialTargets ==
  {[parseErr |-> TRUE, path |-> <<>>, query |-> EmptyQuery]}
  \cup
  {Target(path, db, retries, rs) :
     path \in DialPaths,
     db \in {Absent, Present(<<>>), Present(S_test)},
     retries \in {Absent} \cup {Present(v) : v \in StringsUpTo(ValueChars, MaxValueLen)},
     rs \in {Absent, Present(S_rs0)}}

InitDial ==
  /\ dial = NoDial
  /\ dbs = <<>>
  /\ sessions = <<>>
  /\ th = [t \in Threads |-> Idle]
  /\ cls = NoCls
  /\ drv = NoDrv

\* the program's first statement: one Dial
DialOnce(tg, dialOk) == ~dial.called /\ Dial(tg, dialOk)

NextDial == \E tg \in DialTargets, dialOk \in BOOLEAN : DialOnce(tg, dialOk)

SpecDial == InitDial /\ [][NextDial]_vars

(***************************************************************************)
(* The errors given to the classifier alone                                *)
(***************************************************************************)
Tokens == {S_closed, <<"C","l","o","s","e","d">>, <<" ","e","x","p","l","i","c","i","t","l","y">>,
           ErrNotFound.msg, <<"x">>, S_connection, EOF.msg}

RECURSIVE Messages(_)
Messages(n) ==
  IF n = 0 THEN {<<>>}
  ELSE LET shorter == Messages(n - 1)
       IN  shorter \cup {m \o tk : m \in shorter, tk \in Tokens}

ClassifierInputs ==
  {NilErr, EOF} \cup {[kind |-> k, msg |-> m] : k \in {"operr", "other"}, m \in Messages(MaxTokens)}

Verdict(b) == IF b THEN "transient" ELSE "permanent"

InitClassifier ==
  /\ cls \in {[err |-> e, out |-> "none", loose |-> "none"] : e \in ClassifierInputs}
  /\ dial = NoDial
  /\ dbs = <<>>
  /\ sessions = <<>>
  /\ th = [t \in Threads |-> Idle]
  /\ drv = NoDrv

\* a call of isNetworkError(err)
Classify ==
  /\ cls.out = "none"
  /\ cls' = [cls EXCEPT !.out = Verdict(isNetworkError(cls.err)),
                        !.loose = Verdict(isNetworkErrorLoose(cls.err))]
  /\ UNCHANGED <<dbs, sessions, th, dial, drv>>

NextClassifier == Classify

SpecClassifier == InitClassifier /\ [][NextClassifier]_vars

(***************************************************************************)
(* The driver, as far as the package's comments describe it: a collection  *)
(* of documents, the Query and Iter objects the handles wrap, and what a   *)
(* driver call returns under the network condition it meets.               *)
(***************************************************************************)
\* the documents of the program, told apart by their _id
Docs == {"a", "b"}

\* a selector matches the document of one _id, or every document
Sels == Docs \cup {"all"}

Matching(docs, sel) == IF sel = "all" THEN docs ELSE docs \cap {sel}

\* what a driver call meets: the server answers, the connection is down, or
\* (a write) the request is sent and the connection drops before the reply
NetConds(method) == IF method = "Insert" THEN {"up", "down", "lost"} ELSE {"up", "down"}

ErrDup == [kind |-> "other", msg |-> <<"d","u","p","l","i","c","a","t","e"," ","k","e","y">>]

\* the driver's objects
St == [docs |-> drv.docs, q |-> drv.q, it |-> drv.it]

\* the result of a driver call: out = "keep" leaves the caller's result as it was
Ret(st, err, out, kills) == [st |-> st, err |-> err, out |-> out, kills |-> kills]

\* mgo.Collection.Insert
DrvInsert(st, doc, net) ==
  IF net = "down" THEN Ret(st, EOF, "keep", 0)
  ELSE IF doc \in st.docs THEN Ret(st, IF net = "lost" THEN EOF ELSE ErrDup, "keep", 0)
  ELSE Ret([st EXCEPT !.docs = @ \cup {doc}], IF net = "lost" THEN EOF ELSE NilErr, "keep", 0)

\* mgo.Query.One: the first matching document is unmarshalled into the result
DrvOne(st, net) ==
  LET m == Matching(st.docs, st.q.sel)
  IN  IF net # "up" THEN Ret(st, EOF, "keep", 0)
      ELSE IF m = {} THEN Ret(st, ErrNotFound, "keep", 0)
      ELSE Ret(st, NilErr, IF "a" \in m THEN "a" ELSE "b", 0)

\* mgo.Query.Apply with an update: not found when nothing matches
DrvApply(st, net) ==
  IF net # "up" THEN Ret(st, EOF, "keep", 0)
  ELSE IF Matching(st.docs, st.q.sel) = {} THEN Ret(st, ErrNotFound, "keep", 0)
  ELSE Ret(st, NilErr, "keep", 0)

\* mgo.Query.All, Explain, Count, Distinct, MapReduce, and mgo.Database.Run
DrvRead(st, net) ==
  IF net # "up" THEN Ret(st, EOF, "keep", 0) ELSE Ret(st, NilErr, "read", 0)

\* mgo.Iter.Next: false at the end of the result set or if an error happened
DrvNext(st, net) ==
  IF st.it.state # "Open" THEN Ret(st, NilErr, "false", 0)
  ELSE IF net # "up" THEN
    Ret([st EXCEPT !.it.state = "Errored", !.it.err = EOF], NilErr, "false", 0)
  ELSE IF st.it.left > 0 THEN Ret([st EXCEPT !.it.left = @ - 1], NilErr, "true", 0)
  ELSE Ret([st EXCEPT !.it.state = "Exhausted", !.it.live = FALSE], NilErr, "false", 0)

\* mgo.Iter.Err: nil if no errors happened during iteration, or the actual error
DrvErr(st) == Ret(st, st.it.err, "keep", 0)

\* mgo.Iter.Done: true only if a follow up Next is guaranteed to return false
DrvDone(st) ==
  Ret(st, NilErr, IF st.it.state # "Open" THEN "true" ELSE "false", 0)

\* mgo.Iter.Timeout, of a cursor that is not tailable
DrvTimeout(st) == Ret(st, NilErr, "false", 0)

\* mgo.Iter.Close: kills the server cursor, if any, and returns nil if no errors
\* happened during iteration, or the actual error otherwise
DrvClose(st) ==
  Ret([st EXCEPT !.it.live = FALSE,
                 !.it.state = IF @ = "Errored" THEN "Errored" ELSE "Closed"],
      st.it.err, "keep", IF st.it.live THEN 1 ELSE 0)

\* mgo.Iter.All: retrieves all documents and closes the iterator
DrvAll(st, net) ==
  LET n == DrvNext(st, net).st
      drained == IF n.it.state = "Open" THEN [n EXCEPT !.it.left = 0] ELSE n
      c == DrvClose(drained)
  IN  Ret(c.st, c.err, IF c.err = NilErr THEN "read" ELSE "keep", c.kills)

\* the driver call that the package's method wraps
Drive(method, arg, st, net) ==
  CASE method = "Insert" -> DrvInsert(st, arg, net)
    [] method = "One" -> DrvOne(st, net)
    [] method = "Apply" -> DrvApply(st, net)
    [] method \in {"All", "Explain", "Count", "Distinct", "MapReduce", "Run"} -> DrvRead(st, net)
    [] method = "Next" -> DrvNext(st, net)
    [] method = "Err" -> DrvErr(st)
    [] method = "Done" -> DrvDone(st)
    [] method = "Timeout" -> DrvTimeout(st)
    [] method = "Close" -> DrvClose(st)
    [] method = "IterAll" -> DrvAll(st, net)

(***************************************************************************)
(* A call made by a program of one goroutine, from its entry to its        *)
(* return.  acc is what the call has done so far: the driver's objects,    *)
(* the named results err and out, the driver calls made, the               *)
(* Session.Refresh calls issued and the server cursors killed.             *)
(***************************************************************************)
\* the network conditions the n driver calls of a call may meet, in order
NetSeqs(method, n) == [1..n -> NetConds(method)]

\* the driver calls a call on Database d may make
Attempts(d, method, retried) ==
  IF method = "Run" THEN 2 ELSE IF retried THEN LoopBound(d) ELSE 1

Acc0(st) == [st |-> st, err |-> NilErr, out |-> "unset",
             calls |-> 0, refreshes |-> 0, kills |-> 0, sent |-> <<>>, served |-> 0]

\* a loop that keeps the first error it met
Attempted_firstError(acc, r) ==
  [st |-> r.st, err |-> IF acc.err # NilErr THEN acc.err ELSE r.err,
   out |-> IF r.out = "keep" THEN acc.out ELSE r.out,
   calls |-> acc.calls + 1, refreshes |-> acc.refreshes, kills |-> acc.kills + r.kills,
   sent |-> acc.sent, served |-> acc.served]

\* "err = <driver call>"
Attempted(acc, r) ==
  [st |-> r.st, err |-> r.err, out |-> IF r.out = "keep" THEN acc.out ELSE r.out,
   calls |-> acc.calls + 1, refreshes |-> acc.refreshes, kills |-> acc.kills + r.kills,
   sent |-> acc.sent, served |-> acc.served]

\* refresh(), no other goroutine running: the flag is set, Session.Refresh
\* called and the flag cleared, unless the flag was found set
Refreshed(d, acc) ==
  IF Refreshing(d) THEN acc ELSE [acc EXCEPT !.refreshes = @ + 1]

\* the Database after n calls of refresh() that found the flag clear
RECURSIVE DbAfter(_, _)
DbAfter(db, n) ==
  IF n <= 0 THEN db ELSE DbAfter(SetRefreshing(SetRefreshing(db, TRUE), FALSE), n - 1)

\* the Databases when a call on Database d returns
DbsAfter(d, acc) == [dbs EXCEPT ![d] = DbAfter(@, acc.refreshes)]

\* a loop that passes the caller's documents to its first driver call only
Payload_firstOnly(arg, i) == IF i = 0 THEN arg ELSE "none"

\* "docs...", "selector, update": the arguments of the driver call of
\* iteration i are the method's parameters
Payload(arg, i) == arg

\* the request of a write reaches the server unless the connection is down
Served(method, net) == method = "Insert" /\ net # "down"

\* the record of a driver call r in a loop: what it was passed and what it
\* returned
Sent(acc, a, r, payload, served) ==
  [a EXCEPT !.sent = Append(acc.sent, [payload |-> payload, err |-> r.err, out |-> r.out]),
            !.served = acc.served + IF served THEN 1 ELSE 0]

\* the loop of the Collection and Iter methods, from iteration i
RECURSIVE StrictLoop(_, _, _, _, _, _)
StrictLoop(d, method, arg, nets, i, acc) ==
  IF ~(i < LoopBound(d)) THEN acc
  ELSE LET net == nets[acc.calls + 1]
           r == Drive(method, Payload(arg, i), acc.st, net)
           a == Sent(acc, Attempted(acc, r), r, Payload(arg, i), Served(method, net))
       IN  IF ReturnsAfter(a.err) THEN a
           ELSE StrictLoop(d, method, arg, nets, i + 1, Refreshed(d, a))

\* the loop of Query.One, All, Apply and Explain, from iteration i
RECURSIVE QueryLoop(_, _, _, _, _)
QueryLoop(d, method, nets, i, acc) ==
  IF ~(i < LoopBound(d)) THEN acc
  ELSE LET r == Drive(method, "none", acc.st, nets[acc.calls + 1])
           a == Sent(acc, Attempted(acc, r), r, "none", FALSE)
       IN  IF QueryReturnsAfter(a.err) THEN a
           ELSE IF QueryContinues(a.err) THEN QueryLoop(d, method, nets, i + 1, a)
           ELSE QueryLoop(d, method, nets, i + 1, Refreshed(d, a))

\* a method that returns what one driver call returns
Once(method, nets, acc) == Attempted(acc, Drive(method, "none", acc.st, nets[1]))

\* Database.Run
RunTwice(d, nets, acc) ==
  LET a == Once("Run", nets, acc)
  IN  IF RunRetries(a.err)
      THEN Attempted([a EXCEPT !.refreshes = @ + 1], Drive("Run", "none", a.st, nets[2]))
      ELSE a

\* the Query methods with the retry loop
QueryRetried_withCount(method) == method \in {"Explain", "One", "Apply", "All", "Count"}

QueryRetried(method) == method \in {"Explain", "One", "Apply", "All"}

\* the Query methods that return the driver's result
QueryPassthroughs == {"Count", "Distinct", "MapReduce"}

\* the Query methods that set an option of the driver's query
QueryBuilders == {"Batch", "Prefetch", "Skip", "Limit", "Select", "Sort", "Hint",
                  "SetMaxScan", "SetMaxTime", "Snapshot", "Comment", "LogReplay"}

\* the Iter methods with the retry loop
IterRetried_withNext(method) == method \in {"Close", "IterAll", "Next"}

IterRetried(method) == method \in {"Close", "IterAll"}

IterMethods == {"Next", "Err", "Done", "Timeout", "Close", "IterAll"}

\* the record of a call that returned
Returned(method, d, acc, ret) ==
  [method |-> method, db |-> d, arg |-> "none", err |-> acc.err, out |-> acc.out,
   ret |-> ret, calls |-> acc.calls, refreshes |-> acc.refreshes, kills |-> acc.kills,
   sent |-> acc.sent, served |-> acc.served]

\* the document whose Insert has just returned nil, if that is the last call
JustInserted ==
  IF drv.last.method = "Insert" /\ drv.last.err = NilErr THEN drv.last.arg ELSE "none"

\* the addresses of the program's Query and of a copy of it
QueryAddr == 1
CopyAddr == 2

\* a builder that returns a copy of the Query
BuilderReturns_copy(q) == CopyAddr

\* "return q"
BuilderReturns(q) == q

\* the session of Database d has been closed: a call on a handle that reaches
\* it finds no session to use
Closed(d) == dbs[d].session \in drv.closed

\* the program holds no Query and no Iter: it makes its calls on the Database
\* and the Collection before it makes a Query
NoHandles == ~drv.q.has /\ drv.it.state = "none"

\* db.C(name).Insert(doc)
SeqInsert(d, doc) ==
  /\ ~Closed(d) /\ NoHandles
  /\ \E nets \in NetSeqs("Insert", Attempts(C(d).Database, "Insert", TRUE)) :
       LET acc == StrictLoop(C(d).Database, "Insert", doc, nets, 0, Acc0(St))
       IN  /\ drv' = [drv EXCEPT !.docs = acc.st.docs,
                                 !.last = [Returned("Insert", d, acc, 0) EXCEPT !.arg = doc],
                                 !.prev = NoCall]
           /\ dbs' = DbsAfter(C(d).Database, acc)
  /\ UNCHANGED <<sessions, th, dial, cls>>

\* db.C(name).Find(sel); ins is the document inserted by the call before it,
\* when sel is its selector
SeqFind(d, sel) ==
  /\ ~Closed(d)
  /\ drv' = [drv EXCEPT !.q = [has |-> TRUE, db |-> Find(C(d)).db, sel |-> sel, opts |-> 0,
                               ins |-> IF drv.last.db = d /\ sel = JustInserted
                                       THEN JustInserted ELSE "none"],
                        !.it = NoIter,
                        !.last = Returned("Find", d, Acc0(St), QueryAddr), !.prev = NoCall]
  /\ UNCHANGED <<dbs, sessions, th, dial, cls>>

\* q.Batch(n), q.Sort(fields...), ...: "q.q = q.q.Batch(n); return q"
SeqBuilder(method) ==
  /\ drv.q.has /\ ~Closed(drv.q.db) /\ drv.q.opts < MaxBuilders
  /\ drv' = [drv EXCEPT !.q.opts = @ + 1,
                        !.last = Returned(method, drv.q.db, Acc0(St), BuilderReturns(QueryAddr)),
                        !.prev = NoCall]
  /\ UNCHANGED <<dbs, sessions, th, dial, cls>>

\* q.One(&r), q.All(&rs), q.Apply(change, &r), q.Explain(&r), q.Count(),
\* q.Distinct(key, &r), q.MapReduce(job, &r)
SeqQuery(method) ==
  /\ drv.q.has /\ ~Closed(drv.q.db)
  /\ \E nets \in NetSeqs(method, Attempts(drv.q.db, method, QueryRetried(method))) :
       LET acc == IF QueryRetried(method)
                  THEN QueryLoop(drv.q.db, method, nets, 0, Acc0(St))
                  ELSE Once(method, nets, Acc0(St))
       IN  /\ drv' = [drv EXCEPT !.last = Returned(method, drv.q.db, acc, 0), !.prev = NoCall]
           /\ dbs' = IF QueryRetried(method) THEN DbsAfter(drv.q.db, acc) ELSE dbs
  /\ UNCHANGED <<sessions, th, dial, cls>>

\* q.Iter()
SeqIter ==
  /\ drv.q.has /\ ~Closed(drv.q.db)
  /\ drv' = [drv EXCEPT !.it = [state |-> "Open", db |-> Iter(drv.q).db, err |-> NilErr,
                                live |-> TRUE,
                                left |-> Cardinality(Matching(drv.docs, drv.q.sel))],
                        !.q = NoQuery,
                        !.last = Returned("Iter", drv.q.db, Acc0(St), 0), !.prev = NoCall]
  /\ UNCHANGED <<dbs, sessions, th, dial, cls>>

\* it.Next(&r), it.Err(), it.Done(), it.Timeout(), it.Close(), it.All(&rs);
\* prev keeps the call before this one when both are Close
SeqIterCall(method) ==
  /\ drv.it.state # "none" /\ ~Closed(drv.it.db)
  /\ \E nets \in NetSeqs(method, Attempts(drv.it.db, method, IterRetried(method))) :
       LET acc == IF IterRetried(method)
                  THEN StrictLoop(drv.it.db, method, "none", nets, 0, Acc0(St))
                  ELSE Once(method, nets, Acc0(St))
       IN  /\ drv' = [drv EXCEPT !.it = acc.st.it,
                                 !.last = Returned(method, drv.it.db, acc, 0),
                                 !.prev = IF method = "Close" /\ drv.last.method = "Close"
                                          THEN drv.last ELSE NoCall]
           /\ dbs' = IF IterRetried(method) THEN DbsAfter(drv.it.db, acc) ELSE dbs
  /\ UNCHANGED <<sessions, th, dial, cls>>

\* db.Run(cmd, &r)
SeqRun(d) ==
  /\ ~Closed(d) /\ NoHandles
  /\ \E nets \in NetSeqs("Run", Attempts(d, "Run", FALSE)) :
       drv' = [drv EXCEPT !.last = Returned("Run", d, RunTwice(d, nets, Acc0(St)), 0),
                          !.prev = NoCall]
  /\ UNCHANGED <<dbs, sessions, th, dial, cls>>

\* db.SetMode(consistency, refresh)
SeqSetMode(d) ==
  /\ ~Closed(d) /\ NoHandles
  /\ drv' = [drv EXCEPT !.last = Returned("SetMode", d, Acc0(St), 0), !.prev = NoCall]
  /\ UNCHANGED <<dbs, sessions, th, dial, cls>>

\* db.Close(): "db.session.Close()", one call of the driver
SeqClose(d) ==
  /\ ~Closed(d)
  /\ drv' = [drv EXCEPT !.closed = @ \cup {dbs[d].session},
                        !.last = Returned("Close session", d,
                                          [Acc0(St) EXCEPT !.calls = 1], 0),
                        !.prev = NoCall]
  /\ UNCHANGED <<dbs, sessions, th, dial, cls>>

\* db.DB(name); views records which Database the view was made from
SeqDB(d, name) ==
  /\ ~Closed(d) /\ NoHandles
  /\ \A v \in DbIds : dbs[v].Name # name
  /\ dbs' = Append(dbs, DB(d, name))
  /\ drv' = [drv EXCEPT !.views = @ \cup {<<d, Len(dbs) + 1>>}]
  /\ UNCHANGED <<sessions, th, dial, cls>>

\* db.Clone(), db.Copy(): the program takes one session besides the dialled
\* one; copies records which Database the new one was made from, and how
SeqClone(d) ==
  /\ ~Closed(d) /\ NoHandles /\ drv.copies = {}
  /\ dbs' = Append(dbs, Clone(d))
  /\ sessions' = Append(sessions, [active |-> 0])
  /\ drv' = [drv EXCEPT !.copies = {[of |-> d, db |-> Len(dbs) + 1, by |-> "Clone"]}]
  /\ UNCHANGED <<th, dial, cls>>

SeqCopy(d) ==
  /\ ~Closed(d) /\ NoHandles /\ drv.copies = {}
  /\ dbs' = Append(dbs, Copy(d))
  /\ sessions' = Append(sessions, [active |-> 0])
  /\ drv' = [drv EXCEPT !.copies = {[of |-> d, db |-> Len(dbs) + 1, by |-> "Copy"]}]
  /\ UNCHANGED <<th, dial, cls>>

\* the program makes its calls one after the other: on the Database and the
\* Collection first, then on the Query it made last or on the Iter it made
\* from it
NextSeq ==
  \/ \E d \in DbIds, doc \in Docs : SeqInsert(d, doc)
  \/ \E d \in DbIds, sel \in Sels : SeqFind(d, sel)
  \/ \E method \in QueryBuilders : SeqBuilder(method)
  \/ \E method \in {"Explain", "One", "Apply", "All"} \cup QueryPassthroughs : SeqQuery(method)
  \/ SeqIter
  \/ \E method \in IterMethods : SeqIterCall(method)
  \/ \E d \in DbIds : SeqRun(d) \/ SeqSetMode(d) \/ SeqClose(d)
  \/ \E d \in DbIds, name \in ViewNames : SeqDB(d, name)

\* the program of one goroutine, after its Dial
SpecSeq == Init /\ [][NextSeq]_vars

\* a program that takes a second session by Clone or Copy, makes views, writes
\* through its Databases and closes them
NextCopy ==
  \/ \E d \in DbIds : SeqClone(d) \/ SeqCopy(d) \/ SeqClose(d)
  \/ \E d \in DbIds, name \in ViewNames : SeqDB(d, name)
  \/ \E d \in DbIds, doc \in Docs : SeqInsert(d, doc)

SpecCopy == Init /\ [][NextCopy]_vars

(***************************************************************************)
(* Properties                                                              *)
(***************************************************************************)
StrictOps == {"Collection", "Iter"}
Enveloped == {"Collection", "Query", "Iter"}
RefreshPcs == {"rf_check", "rf_sleep", "rf_set", "rf_wait", "rf_clear"}

\* the retry count of the Session Handle a call was issued through
Budget(c) == dbs[c.of].MaxConnectRetries

\* C1: in a Collection method, Iter.Close or Iter.All on a handle with
\* maxRetries >= 1, an attempt that returned a transient error is followed by a
\* call of refresh before any further attempt (so whenever the call is between
\* attempts or about to retry, every attempt made has had its refresh), and an
\* attempt that returned nil or a non-transient error is the call's last step:
\* the call has returned that outcome, with no refresh after it.
C1_RefreshThenRetryOrReturn ==
  \A t \in Threads :
    LET c == th[t]
    IN  (c.op \in StrictOps /\ Budget(c) >= 1 /\ c.calls > 0) =>
          IF isNetworkError(c.last)
          THEN /\ c.rcalls = c.calls
               /\ c.ntrans = c.calls
               /\ c.pc \in RefreshPcs \cup {"attempt", "done"}
               /\ (c.pc \in RefreshPcs => c.i = c.calls - 1)
               /\ (c.pc \in {"attempt", "done"} => c.i = c.calls)
          ELSE /\ c.pc = "done"
               /\ c.err = c.last
               /\ c.rcalls = c.calls - 1
               /\ c.ntrans = c.calls - 1

\* an Iter call whose first attempt failed transiently, was followed by a
\* refresh, and whose second attempt's "not found" was returned at once
C1_Witness ==
  \E t \in Threads :
    /\ th[t].op = "Iter" /\ th[t].pc = "done"
    /\ th[t].calls = 2 /\ th[t].rcalls = 1
    /\ th[t].err = ErrNotFound

\* C2: an enveloped call on a handle with maxRetries = N >= 1 whose every
\* attempt failed with a transient error has made exactly N attempts when it
\* returns, and returns the error of the last one.
C2_ExhaustedReturnsLastError ==
  \A t \in Threads :
    LET c == th[t]
    IN  (c.op \in Enveloped /\ c.pc = "done" /\ Budget(c) >= 1 /\ c.ntrans = c.calls) =>
          /\ c.calls = Budget(c)
          /\ c.err = c.last
          /\ isNetworkError(c.err)

\* a Query call that made two attempts, EOF then "Closed explicitly", on a
\* handle with maxRetries = 2, and returned the second error
C2_Witness ==
  \E t \in Threads :
    /\ th[t].op = "Query" /\ th[t].pc = "done"
    /\ Budget(th[t]) = 2 /\ th[t].calls = 2 /\ th[t].ntrans = 2
    /\ th[t].err = ErrClosedExplicitly

\* C3: a Query terminal method whose first attempt returned a non-transient
\* error makes no second driver call: its next step returns that error, after
\* one invocation and no refresh.
C3_QueryReturnsFirstPermanentError ==
  [][\A t \in Threads :
       (/\ th[t].op = "Query" /\ th[t].pc # "done"
        /\ th[t].calls = 1
        /\ th[t].last # NilErr /\ ~isNetworkError(th[t].last)
        /\ th'[t] # th[t])
       => /\ th'[t].pc = "done"
          /\ th'[t].err = th[t].last
          /\ th'[t].calls = 1
          /\ th'[t].rcalls = 0]_vars

\* C4: of the goroutines inside refresh() on one Database, at most one is
\* inside the driver's Session.Refresh.
C4_OneRefreshPerDatabase ==
  \A d \in DbIds :
    Cardinality({t \in Threads : th[t].db = d /\ th[t].pc = "rf_wait"}) <= 1

\* C5: Database.Run, whatever the retry count: it never calls the command more
\* than twice nor refreshes more than once, and never goes through refresh();
\* it returns after one call exactly when that call's outcome was nil or a
\* non-transient error, without a refresh; after a transient first outcome it
\* refreshes the session once, calls once more and returns the second outcome.
C5_RunRetriesOnce ==
  \A t \in Threads :
    LET c == th[t]
    IN  c.op = "Run" =>
          /\ c.calls <= 2 /\ c.real <= 1 /\ c.rcalls = 0
          /\ (c.pc \in {"run_refresh", "run_wait"} =>
                c.calls = 1 /\ isNetworkError(c.last))
          /\ (c.pc = "run_wait" <=> (c.real = 1 /\ c.calls = 1))
          /\ (c.pc = "done" =>
                /\ c.err = c.last
                /\ IF c.calls = 1
                   THEN ~isNetworkError(c.last) /\ c.real = 0
                   ELSE /\ c.calls = 2 /\ c.real = 1
                        /\ c.ntrans = 1 + (IF isNetworkError(c.last) THEN 1 ELSE 0))

\* a Run on a handle with maxRetries = 0 that refreshed, retried and returned
\* the second attempt's transient error
C5_Witness ==
  \E t \in Threads :
    /\ th[t].op = "Run" /\ th[t].pc = "done"
    /\ Budget(th[t]) = 0
    /\ th[t].calls = 2 /\ th[t].real = 1 /\ th[t].err = EOF

\* the path segment of a target: its path without the leading "/"
Segment(tg) == IF tg.path = <<>> THEN <<>> ELSE SubSeq(tg.path, 2, Len(tg.path))

\* the value of a key given once, the empty string when the key is absent
Param(tg, key) == IF tg.query[key] = <<>> THEN <<>> ELSE tg.query[key][1]

C7_RetryBudget ==
  (dial.called /\ dial.res.err \notin {"parse", "config"}) =>
    LET tg == dial.target
        res == dial.res
    IN  IF tg.query["maxRetries"] = <<>>
        THEN res.db.has /\ res.db.MaxConnectRetries = 2
        ELSE IF AtoiOk(Param(tg, "maxRetries"))
        THEN res.db.has /\ res.db.MaxConnectRetries = AtoiVal(Param(tg, "maxRetries"))
        ELSE res.err # "nil" /\ ~res.db.has /\ ~res.url.dialed

\* C8: Dial returns no Database with a negative retry count.
C8_NoNegativeRetryCount ==
  dial.called => ~(dial.res.db.has /\ dial.res.db.MaxConnectRetries < 0)

\* C9: isNetworkError is false of nil, true of io.EOF, true of a *net.OpError,
\* and of any other error true exactly when its lower-cased message starts or
\* ends with "closed": true of "Closed explicitly", false of "not found".
C9_Classifier ==
  cls.out # "none" =>
    LET e == cls.err
        low == ToLower(e.msg)
    IN  /\ cls.out = Verdict(
             CASE e.kind = "nil" -> FALSE
               [] e.kind = "eof" -> TRUE
               [] e.kind = "operr" -> TRUE
               [] OTHER -> HasPrefix(low, S_closed) \/ HasSuffix(low, S_closed))
        /\ (e = ErrClosedExplicitly => cls.out = "transient")
        /\ (e = ErrNotFound => cls.out = "permanent")

\* an error whose message has "closed" in the middle only, found not transient
C9_Witness ==
  /\ cls.out = "permanent" /\ cls.err.kind = "other"
  /\ Contains(ToLower(cls.err.msg), S_closed)

\* C10: the Collection made by C, the Query made by Find and the Iter made by
\* Iter or NewIter refer to the Database they were derived from and have no
\* retry count or flag of their own; a call made through them runs against
\* that Database: its attempts are within that Database's retry count.
C10_HandlesShareDatabase ==
  /\ \A d \in DbIds :
       /\ C(d).Database = d /\ DOMAIN C(d) = {"Database", "Name"}
       /\ Find(C(d)) = [db |-> d]
       /\ Iter(Find(C(d))) = [db |-> d]
       /\ NewIter(C(d)) = [db |-> d]
  /\ \A t \in Threads :
       LET c == th[t]
       IN  c.pc # "idle" =>
             /\ c.db = c.of
             /\ (c.op \in Enveloped => c.calls = 0 \/ c.calls <= Budget(c))

\* a Query made through the DB(name) view is refreshing that view: the view's
\* flag is set and the dialled Database's is not
C10_Witness ==
  \E t \in Threads :
    /\ th[t].op = "Query" /\ th[t].of = 2 /\ th[t].pc = "rf_wait"
    /\ dbs[2].refreshing /\ ~dbs[1].refreshing

\* C11: with the goroutines calling enveloped methods through handles of one
\* Database of retry count N >= 0 (and of its views), every driver call and
\* Session.Refresh returning, a call never makes more than N driver calls and
\* every call in progress eventually returns.
C11_EveryCallReturns ==
  /\ [](\A t \in Threads :
         (th[t].op \in Enveloped /\ Budget(th[t]) >= 0) => th[t].calls <= Budget(th[t]))
  /\ \A t \in Threads :
       (th[t].op \in Enveloped /\ th[t].pc # "done") ~> (th[t].pc = "done")

\* both goroutines are in Collection calls on the same Database, one inside
\* Session.Refresh and the other in the de-duplication sleep on its last attempt
C11_Witness ==
  /\ th["g1"].op = "Collection" /\ th["g2"].op = "Collection"
  /\ th["g1"].db = th["g2"].db
  /\ th["g1"].pc = "rf_wait" /\ th["g2"].pc = "rf_sleep"
  /\ th["g2"].calls = Budget(th["g2"]) /\ Budget(th["g2"]) >= 1

\* C12: a goroutine in refresh() that reads the flag set goes to the sleep
\* without entering Session.Refresh and without writing the flag; when the
\* sleep ends refresh() returns, and the calling loop counts the attempt and
\* goes on to its next iteration with err as it was, the Databases and the
\* sessions untouched.
C12_SleeperDoesNotRefresh ==
  [][\A t \in Threads :
       /\ (th[t].pc = "rf_check" /\ dbs[th[t].db].refreshing /\ th'[t] # th[t]) =>
            /\ th'[t].pc = "rf_sleep"
            /\ th'[t].real = th[t].real /\ th'[t].i = th[t].i
            /\ dbs' = dbs /\ sessions' = sessions
       /\ (th[t].pc = "rf_sleep" /\ th'[t] # th[t]) =>
            /\ th'[t].pc = "attempt"
            /\ th'[t].i = th[t].i + 1
            /\ th'[t].real = th[t].real /\ th'[t].calls = th[t].calls
            /\ th'[t].err = th[t].err
            /\ dbs' = dbs /\ sessions' = sessions]_vars

\* a Collection call on a handle with maxRetries = 2 that returned its second
\* transient error having called refresh() twice and Session.Refresh never
C12_Witness ==
  \E t \in Threads :
    /\ th[t].op = "Collection" /\ th[t].pc = "done"
    /\ Budget(th[t]) = 2 /\ th[t].calls = 2 /\ th[t].ntrans = 2
    /\ th[t].rcalls = 2 /\ th[t].real = 0

\* C13: on every session, whichever Databases share it and whether the
\* refresh comes from refresh() or from Run, at most one Session.Refresh call
\* is in progress.
C13_OneRefreshPerSession ==
  \A s \in 1..Len(sessions) : sessions[s].active <= 1

\* C14: a step that makes a Database by DB(name) adds one Database whose name
\* is the name asked for, and whose session and retry count are those of a
\* Database that existed (the receiver); it leaves every existing Database as
\* it was (name, retry count, session, flag), starts and ends no
\* Session.Refresh, dials nothing and touches no call in progress.
C14_SwitchDatabaseFrame ==
  [][Len(dbs') # Len(dbs) =>
       /\ Len(dbs') = Len(dbs) + 1
       /\ SubSeq(dbs', 1, Len(dbs)) = dbs
       /\ dbs'[Len(dbs')].Name \in ViewNames
       /\ \E d \in DbIds :
            /\ dbs'[Len(dbs')].session = dbs[d].session
            /\ dbs'[Len(dbs')].MaxConnectRetries = dbs[d].MaxConnectRetries
       /\ sessions' = sessions
       /\ dial' = dial
       /\ th' = th]_vars

\* the view "other" of a Database of retry count 1 exists, with the same
\* session and retry count, while that Database is being refreshed
C14_Witness ==
  /\ Len(dbs) = 2 /\ dbs[2].Name = S_other
  /\ dbs[2].session = dbs[1].session /\ dbs[2].MaxConnectRetries = 1
  /\ dbs[1].refreshing /\ sessions[dbs[1].session].active = 1
  /\ \A t \in Threads : th[t].pc # "idle" => th[t].of = 1

\* the retry count of the Session Handle the last call was made through
LastBudget == dbs[drv.last.db].MaxConnectRetries

\* C15: a builder call returns the Query it was called on, makes no driver
\* call that executes the query, calls neither refresh nor Session.Refresh, and
\* its step changes only the options of that Query: the Databases (retry
\* count, flag), the sessions, the documents and the cursor are as before.
C15_BuildersOnlySetOptions ==
  /\ [](drv.last.method \in QueryBuilders =>
          /\ drv.last.ret = QueryAddr
          /\ drv.last.calls = 0 /\ drv.last.refreshes = 0 /\ drv.last.kills = 0)
  /\ [][(drv' # drv /\ drv'.last.method \in QueryBuilders) =>
          /\ dbs' = dbs /\ sessions' = sessions
          /\ drv'.q = [drv.q EXCEPT !.opts = @ + 1]
          /\ drv'.docs = drv.docs /\ drv'.it = drv.it /\ drv'.closed = drv.closed]_vars

\* q.Limit(n).Sort(f): the second builder call in a chain on a Query of a
\* handle with maxRetries = 2 has returned
C15_Witness ==
  /\ drv.last.method = "Sort" /\ drv.q.has /\ drv.q.opts = 2
  /\ LastBudget = 2

\* C16: Query.Count, Distinct and MapReduce make exactly one driver call and no
\* refresh, whatever the retry count, and return that call's error, also when
\* it is a transient one.
C16_QueryPassthroughs ==
  drv.last.method \in QueryPassthroughs =>
    /\ drv.last.calls = 1 /\ drv.last.refreshes = 0
    /\ drv.last.err \in {NilErr, EOF}
    /\ (drv.last.err = NilErr <=> drv.last.out = "read")

\* Query.Count on a handle with maxRetries = 2 returned EOF after one driver
\* call and no refresh
C16_Witness ==
  /\ drv.last.method = "Count" /\ drv.last.err = EOF /\ isNetworkError(drv.last.err)
  /\ drv.last.calls = 1 /\ drv.last.refreshes = 0 /\ LastBudget = 2

\* C17: Iter.Next, Err, Done and Timeout make exactly one driver call, no
\* refresh and no change to a Database or session, whatever the retry count;
\* Next returns only true or false, and the error met while advancing is what
\* Err returns, and what Close and All return on a handle with maxRetries >= 1.
C17_CursorPassthroughs ==
  /\ [](/\ drv.last.method \in {"Next", "Err", "Done", "Timeout"} =>
             drv.last.calls = 1 /\ drv.last.refreshes = 0 /\ drv.last.kills = 0
        /\ drv.last.method = "Next" =>
             drv.last.err = NilErr /\ drv.last.out \in {"true", "false"}
        /\ drv.last.method = "Err" => drv.last.err = drv.it.err
        /\ (drv.last.method \in {"Close", "IterAll"} /\ LastBudget >= 1) =>
             drv.last.err = drv.it.err)
  /\ [][(drv' # drv /\ drv'.last.method \in {"Next", "Err", "Done", "Timeout"}) =>
          dbs' = dbs /\ sessions' = sessions]_vars

\* Err returned the EOF that a Next met on a handle with maxRetries = 2: one
\* driver call, no refresh
C17_Witness ==
  /\ drv.last.method = "Err" /\ drv.last.err = EOF /\ drv.it.state = "Errored"
  /\ drv.last.calls = 1 /\ drv.last.refreshes = 0 /\ LastBudget = 2

\* C18: on a handle with maxRetries >= 1, a Close that follows a Close on the
\* same Iter returns what the first returned, kills no server cursor and
\* issues no Session.Refresh.
C18_CloseIdempotent ==
  (drv.prev.method = "Close" /\ drv.last.method = "Close" /\ LastBudget >= 1) =>
    /\ drv.last.err = drv.prev.err
    /\ drv.last.kills = 0
    /\ drv.last.refreshes = 0

\* C19: on a handle with maxRetries >= 0, when Insert(d) has returned nil and
\* the next calls are Find(selector of d) on the same handle and One(&r), and
\* the connection is not down at One's last driver call, One returns nil and r
\* is d.
C19_RoundTrip ==
  (/\ drv.last.method = "One" /\ drv.q.ins # "none"
   /\ drv.q.sel = drv.q.ins /\ drv.q.opts = 0
   /\ LastBudget >= 0 /\ ~isNetworkError(drv.last.err)) =>
    drv.last.err = NilErr /\ drv.last.out = drv.q.ins

\* the round trip of C19 on the handles with maxRetries >= 1
C19_RoundTripPositive ==
  (/\ drv.last.method = "One" /\ drv.q.ins # "none"
   /\ drv.q.sel = drv.q.ins /\ drv.q.opts = 0
   /\ LastBudget >= 1 /\ ~isNetworkError(drv.last.err)) =>
    drv.last.err = NilErr /\ drv.last.out = drv.q.ins

\* C20: no step of the program changes the retry count of a Database that
\* exists: not an enveloped call with its refreshes, nor Run, DB(name),
\* SetMode, Close, a builder or a cursor method.
C20_RetryCountFixed ==
  [][\A d \in DbIds : dbs'[d].MaxConnectRetries = dbs[d].MaxConnectRetries]_vars

\* an Insert through the view of a handle dialled with maxRetries = 2 failed
\* twice and refreshed twice, and both handles still have retry count 2
C20_Witness ==
  /\ Len(dbs) = 2 /\ dial.res.db.MaxConnectRetries = 2
  /\ drv.last.method = "Insert" /\ drv.last.db = 2 /\ drv.last.refreshes = 2
  /\ dbs[1].MaxConnectRetries = 2 /\ dbs[2].MaxConnectRetries = 2

\* C21: a Close on a Database makes one Session.Close call and no refresh,
\* and closes the session for every Database that shares it, the views made
\* by DB(name) and the Database a view was made from alike, and so for the
\* Query and the Iter derived from any of them; it changes no Database.  No
\* call returns on a handle whose session is closed.
C21_CloseInvalidatesSharers ==
  [][/\ \A d \in DbIds :
          SeqClose(d) =>
            /\ drv'.last.calls = 1 /\ drv'.last.refreshes = 0
            /\ dbs' = dbs /\ sessions' = sessions
            /\ drv'.closed = drv.closed \cup {dbs[d].session}
            /\ \A v \in DbIds : (<<d, v>> \in drv.views \/ <<v, d>> \in drv.views) => Closed(v)'
            /\ \A h \in {drv.q.db, drv.it.db} \cap DbIds :
                 (h = d \/ <<d, h>> \in drv.views \/ <<h, d>> \in drv.views) => Closed(h)'
     /\ (drv'.last # drv.last /\ drv'.last.method # "Close session")
          => ~Closed(drv'.last.db)]_vars

\* the view of the dialled Database was closed while the program held a Query
\* made from the dialled Database, and both Databases are closed
C21_Witness ==
  /\ Len(dbs) = 2 /\ dbs[2].session = dbs[1].session
  /\ drv.last.method = "Close session" /\ drv.last.db = 2
  /\ drv.q.has /\ drv.q.db = 1
  /\ Closed(1) /\ Closed(2)

\* C22: a write (Insert stands for the Collection methods with its loop) on a
\* handle with maxRetries = N >= 0 passes the caller's documents unchanged to
\* every driver call it makes, makes a further driver call only after one that
\* returned a transient error, and makes at most N of them; so the request
\* reaches the server at most N times in the call.
C22_WritesAtLeastOnce ==
  (drv.last.method = "Insert" /\ LastBudget >= 0) =>
    LET c == drv.last
    IN  /\ Len(c.sent) = c.calls /\ c.calls <= LastBudget
        /\ \A k \in 1..Len(c.sent) : c.sent[k].payload = c.arg
        /\ \A k \in 2..Len(c.sent) : isNetworkError(c.sent[k - 1].err)
        /\ c.served <= c.calls

\* an Insert on a handle with maxRetries = 2 whose request reached the server
\* twice: the reply to the first was lost, and the document was sent again
C22_Witness ==
  /\ drv.last.method = "Insert" /\ LastBudget = 2
  /\ drv.last.calls = 2 /\ drv.last.served = 2
  /\ drv.last.sent[1].err = EOF /\ drv.last.sent[2].payload = drv.last.arg

\* the methods with the retry loop, and the outcomes their loops return at once
LoopMethods == {"Insert", "Close", "IterAll", "One", "All", "Apply", "Explain"}

Final(method, err) ==
  IF QueryRetried(method) THEN err = NilErr ELSE ~isNetworkError(err)

\* C23: in a call of a method with the retry loop, if the driver calls before
\* the j-th all returned a transient error and the j-th returned an outcome
\* that is final for the method (nil or a non-network error for a Collection
\* or Iter method, nil for a Query method), then the j-th is the last driver
\* call of the call, and the call returns its error and the result it produced.
C23_ReturnsFirstFinalOutcome ==
  drv.last.method \in LoopMethods =>
    LET c == drv.last
    IN  /\ Len(c.sent) = c.calls
        /\ \A j \in 1..Len(c.sent) :
             (/\ \A k \in 1..(j - 1) : isNetworkError(c.sent[k].err)
              /\ Final(c.method, c.sent[j].err)) =>
               /\ j = c.calls
               /\ c.err = c.sent[j].err
               /\ c.sent[j].out # "keep" => c.out = c.sent[j].out

\* a One on a handle with maxRetries = 2 whose first driver call failed with
\* EOF and whose second found the document, which the caller received
C23_Witness ==
  /\ drv.last.method = "One" /\ LastBudget = 2 /\ drv.last.calls = 2
  /\ drv.last.sent[1].err = EOF /\ drv.last.sent[2].err = NilErr
  /\ drv.last.err = NilErr /\ drv.last.out \in Docs

\* C24: a call of a method with the retry loop, on a handle of any retry
\* count >= 0, that returns nil has made at least one driver call, and its last
\* driver call returned nil.
C24_NilMeansDriverNil ==
  (drv.last.method \in LoopMethods /\ LastBudget >= 0 /\ drv.last.err = NilErr) =>
    /\ drv.last.calls >= 1
    /\ drv.last.sent[drv.last.calls].err = NilErr

\* the statement of C24 on the handles with maxRetries >= 1
C24_NilMeansDriverNilPositive ==
  (drv.last.method \in LoopMethods /\ LastBudget >= 1 /\ drv.last.err = NilErr) =>
    /\ drv.last.calls >= 1
    /\ drv.last.sent[drv.last.calls].err = NilErr

\* C25: every Database made from another by DB(name), Clone or Copy has the
\* retry count of the Database it was made from.
C25_DerivedKeepRetryCount ==
  /\ \A w \in drv.views : dbs[w[2]].MaxConnectRetries = dbs[w[1]].MaxConnectRetries
  /\ \A c \in drv.copies : dbs[c.db].MaxConnectRetries = dbs[c.of].MaxConnectRetries

\* the part of C25 about DB(name)
C25_ViewsKeepRetryCount ==
  \A w \in drv.views : dbs[w[2]].MaxConnectRetries = dbs[w[1]].MaxConnectRetries

\* C26: at every point of an enveloped call, the calls of refresh it has made
\* are as many as its attempts that returned a transient error, the final
\* attempt included: the call is inside refresh only after a transient
\* attempt, never after nil or a non-transient error, and a call that has
\* returned after N transient attempts has made N calls of refresh, the last
\* one after its last attempt.
C26_RefreshPerTransientAttempt ==
  \A t \in Threads :
    LET c == th[t]
    IN  c.op \in Enveloped =>
          /\ c.rcalls = c.ntrans
          /\ c.pc \in RefreshPcs => (c.calls > 0 /\ isNetworkError(c.last))
          /\ (c.pc = "done" /\ c.calls > 0 /\ isNetworkError(c.last)) =>
                (c.calls = Budget(c) /\ c.rcalls >= 1)

\* a Query call on a handle with maxRetries = 2 that returned after "not
\* found" and then EOF: one transient attempt, the final one, and one refresh
C26_Witness ==
  \E t \in Threads :
    /\ th[t].op = "Query" /\ th[t].pc = "done" /\ Budget(th[t]) = 2
    /\ th[t].calls = 2 /\ th[t].last = EOF /\ th[t].ntrans = 1 /\ th[t].rcalls = 1

\* goroutine t is inside refresh() on Database d
InsideRefresh(t, d) == th[t].pc \in RefreshPcs /\ th[t].db = d

\* C27: after every step, under every interleaving of the goroutines, the
\* flag of a Database on which no goroutine is inside refresh() is false; and
\* a refresh() whose test of the flag is made while no other goroutine is
\* inside refresh() on the Database goes on to a real Session.Refresh.
C27_FlagNeverStuck ==
  [][/\ \A d \in DbIds :
          (\A t \in Threads : ~InsideRefresh(t, d)') => ~dbs'[d].refreshing
     /\ \A t \in Threads :
          (/\ RefreshTest(t)
           /\ \A u \in Threads \ {t} : ~InsideRefresh(u, th[t].db)) =>
            th'[t].pc = "rf_set"]_vars

\* both goroutines have called refresh() on the dialled Database, one issued
\* a Session.Refresh and the other found the flag set and slept, both have
\* left refresh(), and the flag is false
C27_Witness ==
  /\ \A t \in Threads : th[t].db = 1 /\ ~InsideRefresh(t, 1)
  /\ \E t, u \in Threads : /\ th[t].real >= 1
                           /\ th[u].rcalls >= 1 /\ th[u].real = 0 /\ th[u].pc = "attempt"
  /\ ~dbs[1].refreshing

\* the attempts a call may make on its handle
Allowed(c) == IF Budget(c) >= 0 THEN Budget(c) ELSE 0

\* C28: the loop counter of an enveloped call counts that call's own attempts
\* and nothing else, whatever the other goroutine's calls fail at or refresh:
\* between attempts it equals the attempts the call has made, inside refresh
\* it is one behind, and a call that returns has either received an outcome
\* that ends its loop or made all the attempts its handle allows; and a step
\* of one goroutine leaves the other goroutine's call as it was.
C28_AttemptCounterLocal ==
  [][/\ \A t \in Threads :
          LET c == th'[t]
          IN  c.op \in Enveloped =>
                /\ c.pc = "attempt" => c.i = c.calls
                /\ c.pc \in RefreshPcs => c.i = c.calls - 1
                /\ c.calls <= Allowed(c)
                /\ c.pc = "done" =>
                     \/ c.calls > 0 /\ (IF c.op = "Query" THEN c.last = NilErr
                                        ELSE ~isNetworkError(c.last))
                     \/ c.calls = Allowed(c)
     /\ \A t, u \in Threads : (t # u /\ th'[t] # th[t]) => th'[u] = th[u]]_vars

\* both goroutines call through the dialled Database with maxRetries = 2: one
\* call has returned after two transient attempts and two refreshes, and the
\* other, after a transient attempt of its own, is at its second attempt
C28_Witness ==
  \E t, u \in Threads :
    /\ t # u /\ th[t].db = 1 /\ th[u].db = 1 /\ dbs[1].MaxConnectRetries = 2
    /\ th[t].pc = "done" /\ th[t].calls = 2 /\ th[t].ntrans = 2 /\ th[t].rcalls = 2
    /\ th[u].pc = "attempt" /\ th[u].i = 1 /\ th[u].calls = 1 /\ th[u].ntrans = 1

\* the connection string has the parameter key, with whatever value
HasKey(query, key) == query[key] # <<>>

\* C29: whenever Dial calls mgo.Dial, the connection string it passes has
\* neither a db nor a maxRetries parameter, also when the target's db
\* parameter is empty and the name comes from the path, and has the target's
\* path and its other parameters unchanged.
C29_DialedUrlStripsOptions ==
  (dial.called /\ dial.res.url.dialed) =>
    /\ ~HasKey(dial.res.url.query, "db")
    /\ ~HasKey(dial.res.url.query, "maxRetries")
    /\ dial.res.url.path = dial.target.path
    /\ dial.res.url.query["replicaSet"] = dial.target.query["replicaSet"]

\* the statement of C29 for the targets whose db and maxRetries parameters are
\* absent or not empty
C29_DialedUrlStripsNonEmpty ==
  (/\ dial.called /\ dial.res.url.dialed
   /\ \A key \in {"db", "maxRetries"} :
        HasKey(dial.target.query, key) => Param(dial.target, key) # <<>>) =>
    /\ ~HasKey(dial.res.url.query, "db")
    /\ ~HasKey(dial.res.url.query, "maxRetries")
    /\ dial.res.url.path = dial.target.path
    /\ dial.res.url.query["replicaSet"] = dial.target.query["replicaSet"]

\* C30: of an error that is not nil, not io.EOF and not a *net.OpError, the
\* loose isNetworkError is true whenever the strict one is; of nil both are
\* false, and of io.EOF both are true.
C30_StrictImpliesLoose ==
  cls.out # "none" =>
    /\ (cls.err.kind = "other" /\ cls.out = "transient") => cls.loose = "transient"
    /\ cls.err = NilErr => (cls.out = "permanent" /\ cls.loose = "permanent")
    /\ cls.err = EOF => (cls.out = "transient" /\ cls.loose = "transient")

\* an error whose message ends with "Closed", and nowhere has "shutdown" or
\* "connection", found transient by both variants
C30_Witness ==
  /\ cls.err.kind = "other" /\ HasSuffix(ToLower(cls.err.msg), S_closed)
  /\ ~Contains(ToLower(cls.err.msg), S_connection)
  /\ ~Contains(ToLower(cls.err.msg), S_shutdown)
  /\ cls.out = "transient" /\ cls.loose = "transient"

====
